---- MODULE Spec2Model ----
(***************************************************************************)
(* A model of build_cover.py: one run of main() (palette, art lookup,      *)
(* normalisation, scene composition, the svg_to_png renderer chain,        *)
(* png_to_jpg, MP3 tagging, source-art deletion, zipping), and the pure    *)
(* text functions wrap_lines / layout.                                     *)
(*                                                                         *)
(* Files are modelled by existence (temporaries, source art), by content   *)
(* class (the cover at out_path) or by content record (the MP3 folder).    *)
(* The outcome of a library or subprocess call is an input of the action   *)
(* that makes the call.  tempfile.mkstemp, Path.write_bytes, Path.unlink   *)
(* and Path.replace are taken to succeed; subprocess.run either returns    *)
(* or raises CalledProcessError.                                           *)
(***************************************************************************)
EXTENDS Integers, Sequences, FiniteSets, TLC

VARIABLES
    pc,            \* position of the run in main() / svg_to_png / embed_cover_in_mp3s
    exc,           \* the exception in flight ("none" when there is none)
    exit_code,     \* "running", 0 or 1
    backend,       \* the renderers of this machine and what each would do
    invoked,       \* renderer invocations made so far, in order
    warnings,      \* messages printed to stderr, in order
    svg_result,    \* how svg_to_png ended: "pending", "ok", "raised"
    exists,        \* which of the run's files exist: art_src and the temporaries
    art_init,      \* whether the source art existed when the run began
    art_in_base,   \* _is_within(art_src, base)
    art_norm,      \* the path upscale_to_3000 returned ("unset" before)
    out_file,      \* content of out_path: "absent", "old", "partial", "cover"
    files,         \* the MP3 folder: name -> content record
    before,        \* the MP3 folder as it was when the run began
    mp3s,          \* sorted(folder.glob("*.mp3"))
    idx,           \* loop index into mp3s (1-based)
    outcome,       \* per track: "none", "ok", "fail"
    attempts,      \* tracks on which ffmpeg was invoked, in order
    reported,      \* tracks whose tagging failure was reported, in order
    ffmpeg,        \* shutil.which("ffmpeg"): "unknown" until asked, "absent", "found"
    text, width, max_lines,     \* arguments of the title's wrap_lines call
    title_lines, subtitle_lines,\* results of the two wrap_lines calls
    layout,        \* the numbers main() derives from the line counts
    tpc            \* position in the text/layout computation

vars == <<pc, exc, exit_code, backend, invoked, warnings, svg_result, exists,
          art_init, art_in_base, art_norm, out_file, files, before, mp3s, idx,
          outcome, attempts, reported, ffmpeg,
          text, width, max_lines, title_lines, subtitle_lines, layout, tpc>>

runVars == <<pc, exc, exit_code, backend, invoked, warnings, svg_result, exists,
             art_init, art_in_base, art_norm, out_file, files, before, mp3s, idx,
             outcome, attempts, reported, ffmpeg>>

textVars == <<text, width, max_lines, title_lines, subtitle_lines, layout, tpc>>

renderVars == <<backend, invoked, warnings, svg_result>>

embedVars == <<files, before, mp3s, idx, outcome, attempts, reported, ffmpeg>>

----------------------------------------------------------------------------
(* Bounds *)

MaxTracks == 3
MaxLen == 8
MaxTitleLen == 4
MaxWidth == 4
MaxLines == 2

----------------------------------------------------------------------------
(* Files of the run *)

Paths == {"art_src", "norm_tmp", "tmp_png", "tmp_svg"}

TempPaths == {"norm_tmp", "tmp_png", "tmp_svg"}

\* Path.unlink on a path of the run
Unlink(fs, p) == [fs EXCEPT ![p] = FALSE]

\* tempfile.mkstemp: the file exists afterwards
Mkstemp(fs, p) == [fs EXCEPT ![p] = TRUE]

----------------------------------------------------------------------------
(* The MP3 folder.  A name is "_tmp_" repeated pre times, then stem, then   *)
(* ".mp3"; stems are lower-case.                                            *)

Stems == {"a", "b", "c"}

Name(k, s) == [pre |-> k, stem |-> s]

\* f.with_name(f"_tmp_{f.name}")
TmpName(f) == [f EXCEPT !.pre = @ + 1]

\* The names a folder may hold when the run begins: tracks, and a file left
\* by an interrupted earlier run (its "_tmp_" output).
TrackNames == {Name(0, s) : s \in Stems} \cup {Name(1, "a")}

AllNames == TrackNames \cup {TmpName(f) : f \in TrackNames}

NoName == Name(0, "-")

NoFile == [st |-> "none", of |-> NoName]

PartialFile == [st |-> "partial", of |-> NoName]

Orig(f) == [st |-> "orig", of |-> f]

\* what ffmpeg writes for an input of content c: the same audio, cover attached
Tagged(c) == [st |-> "tagged", of |-> c.of]

StemLess(s, t) == \/ s = "a" /\ t \in {"b", "c"}
                  \/ s = "b" /\ t = "c"

\* str order of the names: "_" (0x5f) sorts before every lower-case letter
NameLess(f, g) == \/ f.pre > g.pre
                  \/ f.pre = g.pre /\ StemLess(f.stem, g.stem)

RECURSIVE Sorted(_)
Sorted(S) ==
    IF S = {} THEN <<>>
    ELSE LET m == CHOOSE x \in S : \A y \in S \ {x} : NameLess(x, y)
         IN <<m>> \o Sorted(S \ {m})

\* folder.glob("*.mp3")
Glob(fs) == {f \in AllNames : fs[f].st # "none"}

Range(s) == {s[i] : i \in 1..Len(s)}

----------------------------------------------------------------------------
(* Renderers *)

Backends == <<"cairosvg", "inkscape", "inkscape_legacy", "rsvg-convert">>

\* cairo: "absent" (import fails), "fails" (svg2png raises), "works"
\* inkscape: shutil.which("inkscape") found it; modern / legacy: whether that
\*   invocation form exits 0
\* rsvg: "absent" (shutil.which finds nothing), "fails", "works"
BackendEnvs ==
    {[cairo |-> c, inkscape |-> i, modern |-> m, legacy |-> l, rsvg |-> r] :
        c \in {"absent", "fails", "works"}, i \in BOOLEAN,
        m \in BOOLEAN, l \in BOOLEAN, r \in {"absent", "fails", "works"}}

\* an uninstalled inkscape has no behaviour of its own
ValidEnvs == {e \in BackendEnvs : ~e.inkscape => (~e.modern /\ ~e.legacy)}

----------------------------------------------------------------------------
(* Text: strings are sequences of one-character strings *)

Alphabet == {"a", " ", "."}

ELLIPSIS == "U+2026"

----------------------------------------------------------------------------
(* main(), lines 293-348: up to the cover being written *)

\* an exception raised in main() outside its try block reaches the handler
\* of the __main__ block: message, sys.exit(1)
Fatal(e) ==
    /\ pc' = "done"
    /\ exc' = e
    /\ exit_code' = 1

\* load_palette: a built-in palette or a complete JSON file, else ValueError
LoadPalette ==
    /\ pc = "load_palette"
    /\ \/ /\ pc' = "find_art"
          /\ UNCHANGED <<exc, exit_code>>
       \/ Fatal("ValueError")
    /\ UNCHANGED <<renderVars, embedVars, textVars, exists, art_init,
                   art_in_base, art_norm, out_file>>

\* find_art: the first candidate that exists, else FileNotFoundError
FindArt ==
    /\ pc = "find_art"
    /\ IF exists["art_src"]
       THEN pc' = "upscale_open" /\ UNCHANGED <<exc, exit_code>>
       ELSE Fatal("FileNotFoundError")
    /\ UNCHANGED <<renderVars, embedVars, textVars, exists, art_init,
                   art_in_base, art_norm, out_file>>

\* upscale_to_3000, lines 130-135: open and convert the art; return src when
\* it is 3000x3000 already, else create the temporary PNG
UpscaleOpen ==
    /\ pc = "upscale_open"
    /\ \/ /\ Fatal("UnidentifiedImageError")
          /\ UNCHANGED <<exists, art_norm>>
       \/ /\ art_norm' = "art_src"
          /\ pc' = "data_uri"
          /\ UNCHANGED <<exc, exit_code, exists>>
       \/ /\ exists' = Mkstemp(exists, "norm_tmp")
          /\ pc' = "upscale_save"
          /\ UNCHANGED <<exc, exit_code, art_norm>>
    /\ UNCHANGED <<renderVars, embedVars, textVars, art_init, art_in_base,
                   out_file>>

\* upscale_to_3000, lines 136-139: resize, sharpen, save, return tmp; an
\* exception here leaves the function with nothing removing tmp
UpscaleSave ==
    /\ pc = "upscale_save"
    /\ \/ /\ art_norm' = "norm_tmp"
          /\ pc' = "data_uri"
          /\ UNCHANGED <<exc, exit_code>>
       \/ /\ Fatal("OSError")
          /\ UNCHANGED art_norm
    /\ UNCHANGED <<renderVars, embedVars, textVars, exists, art_init,
                   art_in_base, out_file>>

\* file_to_data_uri(art_norm): read_bytes may fail
FileToDataUri ==
    /\ pc = "data_uri"
    /\ \/ /\ pc' = "render_template"
          /\ UNCHANGED <<exc, exit_code>>
       \/ Fatal("OSError")
    /\ UNCHANGED <<renderVars, embedVars, textVars, exists, art_init,
                   art_in_base, art_norm, out_file>>

\* Template(SVG_TEMPLATE).render(...).encode("utf-8")
RenderTemplate ==
    /\ pc = "render_template"
    /\ \/ /\ pc' = "mk_tmp_png"
          /\ UNCHANGED <<exc, exit_code>>
       \/ Fatal("TemplateError")
    /\ UNCHANGED <<renderVars, embedVars, textVars, exists, art_init,
                   art_in_base, art_norm, out_file>>

\* tmp_png = Path(tempfile.mkstemp(suffix=".png")[1]); the try block begins
MkTmpPng ==
    /\ pc = "mk_tmp_png"
    /\ exists' = Mkstemp(exists, "tmp_png")
    /\ pc' = "cairosvg"
    /\ UNCHANGED <<exc, exit_code, renderVars, embedVars, textVars, art_init,
                   art_in_base, art_norm, out_file>>

----------------------------------------------------------------------------
(* svg_to_png *)

Warn(msg) == warnings' = Append(warnings, msg)

Invoke(b) == invoked' = Append(invoked, b)

\* TryCairo without the return of line 172
TryCairoNoReturn ==
    /\ pc = "cairosvg"
    /\ \/ /\ backend.cairo \in {"works", "fails"}
          /\ Invoke("cairosvg")
          /\ IF backend.cairo = "fails"
             THEN Warn("CairoSVG render failed")
             ELSE UNCHANGED warnings
       \/ /\ backend.cairo = "absent"
          /\ Warn("CairoSVG render failed")
          /\ UNCHANGED invoked
    /\ pc' = "mk_tmp_svg"
    /\ UNCHANGED <<exc, exit_code, backend, svg_result, embedVars, textVars,
                   exists, art_init, art_in_base, art_norm, out_file>>

\* lines 163-174: import cairosvg and render in process; any exception is
\* printed as a warning and the CLI renderers follow
TryCairo ==
    /\ pc = "cairosvg"
    /\ \/ /\ backend.cairo = "works"
          /\ Invoke("cairosvg")
          /\ svg_result' = "ok"
          /\ pc' = "png_to_jpg"
          /\ UNCHANGED warnings
       \/ /\ backend.cairo = "fails"
          /\ Invoke("cairosvg")
          /\ Warn("CairoSVG render failed")
          /\ pc' = "mk_tmp_svg"
          /\ UNCHANGED svg_result
       \/ /\ backend.cairo = "absent"
          /\ Warn("CairoSVG render failed")
          /\ pc' = "mk_tmp_svg"
          /\ UNCHANGED <<invoked, svg_result>>
    /\ UNCHANGED <<exc, exit_code, backend, embedVars, textVars, exists,
                   art_init, art_in_base, art_norm, out_file>>

\* lines 176-177: the temporary scene file
MkTmpSvg ==
    /\ pc = "mk_tmp_svg"
    /\ exists' = Mkstemp(exists, "tmp_svg")
    /\ pc' = "inkscape"
    /\ UNCHANGED <<exc, exit_code, renderVars, embedVars, textVars, art_init,
                   art_in_base, art_norm, out_file>>

\* lines 179-191: the Inkscape 1.x form, when inkscape is installed
TryInkscape ==
    /\ pc = "inkscape"
    /\ \/ /\ backend.inkscape /\ backend.modern
          /\ Invoke("inkscape")
          /\ svg_result' = "ok"
          /\ pc' = "svg_finally"
       \/ /\ backend.inkscape /\ ~backend.modern
          /\ Invoke("inkscape")
          /\ pc' = "inkscape_legacy"
          /\ UNCHANGED svg_result
       \/ /\ ~backend.inkscape
          /\ pc' = "rsvg"
          /\ UNCHANGED <<invoked, svg_result>>
    /\ UNCHANGED <<exc, exit_code, backend, warnings, embedVars, textVars,
                   exists, art_init, art_in_base, art_norm, out_file>>

\* lines 191-198: the Inkscape 0.92 form, run inside the except clause: its
\* CalledProcessError is not caught and leaves svg_to_png through finally
TryInkscapeLegacy ==
    /\ pc = "inkscape_legacy"
    /\ Invoke("inkscape_legacy")
    /\ \/ /\ backend.legacy
          /\ svg_result' = "ok"
          /\ UNCHANGED exc
       \/ /\ ~backend.legacy
          /\ svg_result' = "raised"
          /\ exc' = "CalledProcessError"
    /\ pc' = "svg_finally"
    /\ UNCHANGED <<exit_code, backend, warnings, embedVars, textVars, exists,
                   art_init, art_in_base, art_norm, out_file>>

\* lines 199-206: rsvg-convert when installed, else RuntimeError
TryRsvg ==
    /\ pc = "rsvg"
    /\ \/ /\ backend.rsvg = "works"
          /\ Invoke("rsvg-convert")
          /\ svg_result' = "ok"
          /\ UNCHANGED exc
       \/ /\ backend.rsvg = "fails"
          /\ Invoke("rsvg-convert")
          /\ svg_result' = "raised"
          /\ exc' = "CalledProcessError"
       \/ /\ backend.rsvg = "absent"
          /\ svg_result' = "raised"
          /\ exc' = "RuntimeError"
          /\ UNCHANGED invoked
    /\ pc' = "svg_finally"
    /\ UNCHANGED <<exit_code, backend, warnings, embedVars, textVars, exists,
                   art_init, art_in_base, art_norm, out_file>>

\* lines 207-209: finally: tmp_svg.unlink(); then return or re-raise
SvgFinally ==
    /\ pc = "svg_finally"
    /\ exists' = Unlink(exists, "tmp_svg")
    /\ pc' = IF exc = "none" THEN "png_to_jpg" ELSE "main_finally"
    /\ UNCHANGED <<exc, exit_code, renderVars, embedVars, textVars, art_init,
                   art_in_base, art_norm, out_file>>

----------------------------------------------------------------------------
(* png_to_jpg and the finally clause of main() *)

\* lines 211-214: open the raster, convert, save to jpg_path.  Image.save
\* opens jpg_path for writing (truncating what was there) and encodes into
\* it; when encoding fails, Pillow removes the file if the call created it,
\* and a file that was there before stays, truncated.
PngToJpg ==
    /\ pc = "png_to_jpg"
    /\ \/ /\ out_file' = "cover"
          /\ UNCHANGED exc
       \/ /\ exc' = "UnidentifiedImageError"
          /\ UNCHANGED out_file
       \/ /\ out_file # "absent"
          /\ exc' = "OSError"
          /\ out_file' = "partial"
       \/ /\ out_file = "absent"
          /\ exc' = "OSError"
          /\ UNCHANGED out_file
    /\ pc' = "main_finally"
    /\ UNCHANGED <<exit_code, renderVars, embedVars, textVars, exists,
                   art_init, art_in_base, art_norm>>

\* the finally clause without the test of line 344
MainFinallyFsNoTest == Unlink(Unlink(exists, "tmp_png"), art_norm)

\* lines 341-346: tmp_png.unlink(); if art_norm != art_src: unlink art_norm
MainFinallyFs ==
    IF art_norm # "art_src"
    THEN Unlink(Unlink(exists, "tmp_png"), art_norm)
    ELSE Unlink(exists, "tmp_png")

MainFinally ==
    /\ pc = "main_finally"
    /\ exists' = MainFinallyFs
    /\ IF exc = "none"
       THEN pc' = "embed" /\ UNCHANGED exit_code
       ELSE pc' = "done" /\ exit_code' = 1
    /\ UNCHANGED <<exc, renderVars, embedVars, textVars, art_init,
                   art_in_base, art_norm, out_file>>

----------------------------------------------------------------------------
(* embed_cover_in_mp3s *)

\* main() line 351 and lines 247-254: --no-embed skips the call; without
\* ffmpeg, or without MP3 files, the function returns at once
EmbedStart ==
    /\ pc = "embed"
    /\ \/ /\ pc' = "delete_art"
          /\ UNCHANGED <<ffmpeg, mp3s, idx>>
       \/ /\ ffmpeg' = "absent"
          /\ pc' = "delete_art"
          /\ UNCHANGED <<mp3s, idx>>
       \/ /\ ffmpeg' = "found"
          /\ mp3s' = Sorted(Glob(files))
          /\ idx' = 1
          /\ pc' = IF Glob(files) = {} THEN "delete_art" ELSE "ffmpeg"
    /\ UNCHANGED <<exc, exit_code, renderVars, textVars, exists, art_init,
                   art_in_base, art_norm, out_file, files, before, outcome,
                   attempts, reported>>

\* lines 256-267: ffmpeg -y -i f -i cover ... tmp.  It exits 0 with the
\* tagged file written to tmp, or non-zero, before or after it began to
\* write tmp
FfmpegRun ==
    /\ pc = "ffmpeg"
    /\ LET f == mp3s[idx]
           tmp == TmpName(f)
       IN /\ attempts' = Append(attempts, f)
          /\ \/ /\ files[f].st \in {"orig", "tagged"}
                /\ files' = [files EXCEPT ![tmp] = Tagged(files[f])]
                /\ pc' = "tag_replace"
             \/ /\ pc' = "tag_failed"
                /\ UNCHANGED files
             \/ /\ files' = [files EXCEPT ![tmp] = PartialFile]
                /\ pc' = "tag_failed"
    /\ UNCHANGED <<exc, exit_code, renderVars, textVars, exists, art_init,
                   art_in_base, art_norm, out_file, before, mp3s, idx,
                   outcome, reported, ffmpeg>>

\* end of one loop iteration
NextTrack ==
    IF idx < Len(mp3s)
    THEN idx' = idx + 1 /\ pc' = "ffmpeg"
    ELSE idx' = idx /\ pc' = "delete_art"

\* lines 268-269: tmp.replace(f)
TagReplace ==
    /\ pc = "tag_replace"
    /\ LET f == mp3s[idx]
           tmp == TmpName(f)
       IN /\ files' = [files EXCEPT ![f] = files[tmp], ![tmp] = NoFile]
          /\ outcome' = [outcome EXCEPT ![f] = "ok"]
    /\ NextTrack
    /\ UNCHANGED <<exc, exit_code, renderVars, textVars, exists, art_init,
                   art_in_base, art_norm, out_file, before, mp3s, attempts,
                   reported, ffmpeg>>

\* the except clause re-raising: the run ends with the first failed track
TagFailedAbort ==
    /\ pc = "tag_failed"
    /\ LET f == mp3s[idx]
           tmp == TmpName(f)
       IN /\ files' = [files EXCEPT ![tmp] = NoFile]
          /\ outcome' = [outcome EXCEPT ![f] = "fail"]
          /\ reported' = Append(reported, f)
    /\ pc' = "done"
    /\ exc' = "CalledProcessError"
    /\ exit_code' = 1
    /\ UNCHANGED <<idx, renderVars, textVars, exists, art_init, art_in_base,
                   art_norm, out_file, before, mp3s, attempts, ffmpeg>>

\* lines 270-273: except CalledProcessError: remove tmp when it exists,
\* report, go on with the next track
TagFailed ==
    /\ pc = "tag_failed"
    /\ LET f == mp3s[idx]
           tmp == TmpName(f)
       IN /\ files' = IF files[tmp].st # "none"
                      THEN [files EXCEPT ![tmp] = NoFile]
                      ELSE files
          /\ outcome' = [outcome EXCEPT ![f] = "fail"]
          /\ reported' = Append(reported, f)
    /\ NextTrack
    /\ UNCHANGED <<exc, exit_code, renderVars, textVars, exists, art_init,
                   art_in_base, art_norm, out_file, before, mp3s, attempts,
                   ffmpeg>>

----------------------------------------------------------------------------
(* Cleanup and exit *)

\* delete_source_art: unlink the art when it is a file inside base
DeleteSourceArtFs ==
    IF exists["art_src"] /\ art_in_base
    THEN Unlink(exists, "art_src")
    ELSE exists

DeleteSourceArt ==
    /\ pc = "delete_art"
    /\ exists' = DeleteSourceArtFs
    /\ pc' = "zip"
    /\ UNCHANGED <<exc, exit_code, renderVars, embedVars, textVars, art_init,
                   art_in_base, art_norm, out_file>>

\* zip_story_folder inside try/except, then main() returns: exit status 0
ZipStoryFolder ==
    /\ pc = "zip"
    /\ pc' = "done"
    /\ exit_code' = 0
    /\ UNCHANGED <<exc, renderVars, embedVars, textVars, exists, art_init,
                   art_in_base, art_norm, out_file>>

----------------------------------------------------------------------------
(* The run *)

NoLayout == [TITLE_SIZE |-> 0, SUB_SIZE |-> 0, TEXT_BASE_Y |-> 0,
             TITLE_LINE_DY |-> 0, SUB_LINE_DY |-> 0, SUBTITLE_OFFSET_Y |-> 0]

TextOff ==
    /\ text = <<>>
    /\ width = 0
    /\ max_lines = 0
    /\ title_lines = <<>>
    /\ subtitle_lines = <<>>
    /\ layout = NoLayout
    /\ tpc = "off"

Folders == {S \in SUBSET TrackNames : Cardinality(S) <= MaxTracks}

FolderOf(S) == [f \in AllNames |-> IF f \in S THEN Orig(f) ELSE NoFile]

Init ==
    /\ pc = "load_palette"
    /\ exc = "none"
    /\ exit_code = -1
    /\ backend \in ValidEnvs
    /\ invoked = <<>>
    /\ warnings = <<>>
    /\ svg_result = "pending"
    /\ art_init \in BOOLEAN
    /\ exists = [p \in Paths |-> p = "art_src" /\ art_init]
    /\ art_in_base \in BOOLEAN
    /\ art_norm = "unset"
    /\ out_file \in {"absent", "old"}
    /\ \E S \in Folders : files = FolderOf(S)
    /\ before = files
    /\ mp3s = <<>>
    /\ idx = 0
    /\ outcome = [f \in AllNames |-> "none"]
    /\ attempts = <<>>
    /\ reported = <<>>
    /\ ffmpeg = "unknown"
    /\ TextOff

Next ==
    \/ LoadPalette
    \/ FindArt
    \/ UpscaleOpen
    \/ UpscaleSave
    \/ FileToDataUri
    \/ RenderTemplate
    \/ MkTmpPng
    \/ TryCairo
    \/ MkTmpSvg
    \/ TryInkscape
    \/ TryInkscapeLegacy
    \/ TryRsvg
    \/ SvgFinally
    \/ PngToJpg
    \/ MainFinally
    \/ EmbedStart
    \/ FfmpegRun
    \/ TagReplace
    \/ TagFailed
    \/ DeleteSourceArt
    \/ ZipStoryFolder

Spec == Init /\ [][Next]_vars

----------------------------------------------------------------------------
(* textwrap.wrap as wrap_lines calls it (the TextWrapper defaults:          *)
(* drop_whitespace, break_long_words), for texts without tabs and hyphens   *)

\* chunk.strip() == ''
Blank(chunk) == \A i \in 1..Len(chunk) : chunk[i] = " "

RECURSIVE SplitChunks(_, _)
\* TextWrapper._split: maximal runs of whitespace and of non-whitespace
SplitChunks(s, cur) ==
    IF s = <<>> THEN (IF cur = <<>> THEN <<>> ELSE <<cur>>)
    ELSE IF cur = <<>> \/ ((Head(s) = " ") <=> (cur[1] = " "))
         THEN SplitChunks(Tail(s), Append(cur, Head(s)))
         ELSE <<cur>> \o SplitChunks(Tail(s), <<Head(s)>>)

RECURSIVE SumLen(_)
SumLen(chunks) ==
    IF chunks = <<>> THEN 0 ELSE Len(Head(chunks)) + SumLen(Tail(chunks))

RECURSIVE Concat(_)
\* ''.join(chunks)
Concat(chunks) ==
    IF chunks = <<>> THEN <<>> ELSE Head(chunks) \o Concat(Tail(chunks))

RECURSIVE FillLine(_, _, _, _)
\* the inner loop of _wrap_chunks: take chunks while they fit the line
FillLine(chunks, cur, cur_len, w) ==
    IF chunks # <<>> /\ cur_len + Len(Head(chunks)) <= w
    THEN FillLine(Tail(chunks), Append(cur, Head(chunks)),
                  cur_len + Len(Head(chunks)), w)
    ELSE <<cur, chunks>>

RECURSIVE WrapChunks(_, _, _)
\* TextWrapper._wrap_chunks with _handle_long_word, for w >= 1
WrapChunks(chunks, w, lines) ==
    IF chunks = <<>> THEN lines
    ELSE LET c0 == IF Blank(Head(chunks)) /\ lines # <<>>
                   THEN Tail(chunks) ELSE chunks
             filled == FillLine(c0, <<>>, 0, w)
             cur1 == filled[1]
             rest1 == filled[2]
             long == rest1 # <<>> /\ Len(Head(rest1)) > w
             space_left == w - SumLen(cur1)
             cur2 == IF long
                     THEN Append(cur1, SubSeq(Head(rest1), 1, space_left))
                     ELSE cur1
             rest2 == IF long
                      THEN <<SubSeq(Head(rest1), space_left + 1,
                                    Len(Head(rest1)))>> \o Tail(rest1)
                      ELSE rest1
             cur3 == IF cur2 # <<>> /\ Blank(cur2[Len(cur2)])
                     THEN SubSeq(cur2, 1, Len(cur2) - 1) ELSE cur2
         IN WrapChunks(rest2, w,
                       IF cur3 # <<>> THEN Append(lines, Concat(cur3))
                       ELSE lines)

\* textwrap.wrap(text, width=w)
Wrap(t, w) == WrapChunks(SplitChunks(t, <<>>), w, <<>>)

RECURSIVE RStrip(_)
\* s.rstrip(". ")
RStrip(s) ==
    IF s # <<>> /\ s[Len(s)] \in {".", " "}
    THEN RStrip(SubSeq(s, 1, Len(s) - 1)) ELSE s

\* len(" ".join(ls))
JoinLen(ls) == IF ls = <<>> THEN 0 ELSE SumLen(ls) + Len(ls) - 1

\* wrap_lines with the guard of line 147 as len(keep[-1]) >= 3
wrap_lines_ge3(t, w, ml) ==
    IF t = <<>> THEN <<>>
    ELSE LET lines == Wrap(t, w)
         IN IF Len(lines) > ml
            THEN LET keep == SubSeq(lines, 1, ml)
                 IN IF JoinLen(SubSeq(lines, ml, Len(lines))) > 0
                       /\ Len(keep[ml]) >= 3
                    THEN [keep EXCEPT ![ml] = Append(RStrip(keep[ml]), ELLIPSIS)]
                    ELSE keep
            ELSE lines

\* wrap_lines, lines 141-150, for max_lines >= 1
wrap_lines(t, w, ml) ==
    IF t = <<>> THEN <<>>
    ELSE LET lines == Wrap(t, w)
         IN IF Len(lines) > ml
            THEN LET keep == SubSeq(lines, 1, ml)
                 IN IF JoinLen(SubSeq(lines, ml, Len(lines))) > 0
                       /\ Len(keep[ml]) > 3
                    THEN [keep EXCEPT ![ml] = Append(RStrip(keep[ml]), ELLIPSIS)]
                    ELSE keep
            ELSE lines

----------------------------------------------------------------------------
(* Layout, main() lines 308-314 *)

CANVAS == 3000

SUB_SIZE == 80

TITLE_LINE_DY == 150

SUB_LINE_DY == 100

TitleSize(nt) == IF nt = 1 THEN 140 ELSE 120

\* line 311 with the shift added instead of subtracted
TextBaseYDown(nt) == 2150 + (IF nt = 1 THEN 0 ELSE 40)

TextBaseY(nt) == 2150 - (IF nt = 1 THEN 0 ELSE 40)

SubtitleOffsetY(nt) == 160 + (TITLE_LINE_DY * (IF nt > 0 THEN nt - 1 ELSE 0))

Layout(nt) ==
    [TITLE_SIZE |-> TitleSize(nt), SUB_SIZE |-> SUB_SIZE,
     TEXT_BASE_Y |-> TextBaseY(nt), TITLE_LINE_DY |-> TITLE_LINE_DY,
     SUB_LINE_DY |-> SUB_LINE_DY, SUBTITLE_OFFSET_Y |-> SubtitleOffsetY(nt)]

----------------------------------------------------------------------------
(* The text computation of main(), lines 303-314 *)

RECURSIVE Strings(_, _)
\* the strings over alphabet A of length at most n
Strings(A, n) ==
    IF n = 0 THEN {<<>>}
    ELSE LET shorter == Strings(A, n - 1)
         IN shorter \cup {Append(s, c) : s \in shorter, c \in A}

\* the subtitles tried: none, one word, two words, three words
SubTexts == {<<>>, <<"a">>, <<"a", " ", "a">>, <<"a", " ", "a", " ", "a">>}

\* line 305: title_lines = wrap_lines(title, args.title_width, args.title_lines)
WrapTitle ==
    /\ tpc = "title"
    /\ title_lines' = wrap_lines(text, width, max_lines)
    /\ tpc' = "subtitle"
    /\ UNCHANGED <<runVars, text, width, max_lines, subtitle_lines, layout>>

\* line 306: subtitle_lines = wrap_lines(subtitle, args.subtitle_width,
\* args.subtitle_lines)
WrapSubtitle ==
    /\ tpc = "subtitle"
    /\ \E st \in SubTexts, w \in 1..MaxWidth, ml \in 1..MaxLines :
            subtitle_lines' = wrap_lines(st, w, ml)
    /\ tpc' = "layout"
    /\ UNCHANGED <<runVars, text, width, max_lines, title_lines, layout>>

\* lines 309-314
ComputeLayout ==
    /\ tpc = "layout"
    /\ layout' = Layout(Len(title_lines))
    /\ tpc' = "done"
    /\ UNCHANGED <<runVars, text, width, max_lines, title_lines,
                   subtitle_lines>>

RunOff ==
    /\ pc = "off"
    /\ exc = "none"
    /\ exit_code = -1
    /\ backend = [cairo |-> "absent", inkscape |-> FALSE, modern |-> FALSE,
                  legacy |-> FALSE, rsvg |-> "absent"]
    /\ invoked = <<>>
    /\ warnings = <<>>
    /\ svg_result = "pending"
    /\ art_init = FALSE
    /\ exists = [p \in Paths |-> FALSE]
    /\ art_in_base = FALSE
    /\ art_norm = "unset"
    /\ out_file = "absent"
    /\ files = FolderOf({})
    /\ before = files
    /\ mp3s = <<>>
    /\ idx = 0
    /\ outcome = [f \in AllNames |-> "none"]
    /\ attempts = <<>>
    /\ reported = <<>>
    /\ ffmpeg = "unknown"

InitText ==
    /\ RunOff
    /\ text \in Strings({"a", " "}, MaxTitleLen)
    /\ width \in 1..MaxWidth
    /\ max_lines \in 1..MaxLines
    /\ title_lines = <<>>
    /\ subtitle_lines = <<>>
    /\ layout = NoLayout
    /\ tpc = "title"

NextText ==
    \/ WrapTitle
    \/ WrapSubtitle
    \/ ComputeLayout

SpecText == InitText /\ [][NextText]_vars

\* wrap_lines alone, on every text over the alphabet
InitWrap ==
    /\ RunOff
    /\ text \in Strings(Alphabet, MaxLen)
    /\ width \in 1..MaxWidth
    /\ max_lines \in 1..MaxLines
    /\ title_lines = <<>>
    /\ subtitle_lines = <<>>
    /\ layout = NoLayout
    /\ tpc = "title"

SpecWrap == InitWrap /\ [][WrapTitle]_vars

----------------------------------------------------------------------------
(* Properties of svg_to_png *)

\* whether renderer b, invoked on this machine, produces the raster
WouldWork(b) ==
    CASE b = "cairosvg" -> backend.cairo = "works"
      [] b = "inkscape" -> backend.inkscape /\ backend.modern
      [] b = "inkscape_legacy" -> backend.inkscape /\ backend.legacy
      [] b = "rsvg-convert" -> backend.rsvg = "works"

\* whether renderer b is installed on this machine
Installed(b) ==
    CASE b = "cairosvg" -> backend.cairo # "absent"
      [] b \in {"inkscape", "inkscape_legacy"} -> backend.inkscape
      [] b = "rsvg-convert" -> backend.rsvg # "absent"

BackendSet == Range(Backends)

\* position of renderer b in the chain
Pos(b) == CHOOSE i \in 1..Len(Backends) : Backends[i] = b

\* C1: svg_to_png raises only when no installed renderer would have
\* produced the raster, every installed renderer having been invoked; in
\* particular rsvg-convert is invoked when cairosvg and both inkscape forms
\* failed and rsvg-convert is installed.
C1_FailsOnlyWhenEveryBackendFailed ==
    svg_result = "raised" =>
        \A b \in BackendSet :
            /\ ~WouldWork(b)
            /\ Installed(b) => b \in Range(invoked)

\* C2: whenever svg_to_png ends without a raster, the exception it raises is
\* the RuntimeError "No renderer available", never a renderer's own error.
C2_FailureIsNoRendererError ==
    svg_result = "raised" => exc = "RuntimeError"

\* the first tier of svg_to_png has been tried
PastCairo ==
    \/ svg_result # "pending"
    \/ pc \in {"mk_tmp_svg", "inkscape", "inkscape_legacy", "rsvg"}

\* C8: the renderers are invoked in the order of the chain, each at most
\* once; every invocation but the last one failed (none follows a success);
\* the legacy inkscape form directly follows a failed modern form; the only
\* warning printed is the one for the first tier, printed once when that
\* tier failed.
C8_BackendsInOrderUntilSuccess ==
    /\ \A i, j \in 1..Len(invoked) :
           i < j => Pos(invoked[i]) < Pos(invoked[j])
    /\ \A i \in 1..Len(invoked) :
           /\ invoked[i] \in BackendSet
           /\ i < Len(invoked) => ~WouldWork(invoked[i])
           /\ invoked[i] = "inkscape_legacy" =>
                 /\ i > 1
                 /\ invoked[i - 1] = "inkscape"
                 /\ ~backend.modern
    /\ svg_result = "ok" =>
           /\ invoked # <<>>
           /\ WouldWork(invoked[Len(invoked)])
    /\ svg_result = "raised" =>
           \A i \in 1..Len(invoked) : ~WouldWork(invoked[i])
    /\ Len(warnings) <= 1
    /\ \A i \in 1..Len(warnings) : warnings[i] = "CairoSVG render failed"
    /\ ~PastCairo => warnings = <<>>
    /\ PastCairo => (warnings # <<>> <=> backend.cairo # "works")

\* C8 witness: cairosvg and the modern form failed, the legacy form rendered
C8_Witness ==
    /\ invoked = <<"cairosvg", "inkscape", "inkscape_legacy">>
    /\ svg_result = "ok"
    /\ warnings = <<"CairoSVG render failed">>
    /\ pc = "png_to_jpg"

----------------------------------------------------------------------------
(* Properties of embed_cover_in_mp3s *)

EmbedOver == pc \in {"delete_art", "zip", "done"}

\* C3: with ffmpeg available, the tracks of the folder are attempted in
\* sorted order, each exactly once, one at a time, whatever the earlier
\* outcomes; every failure is reported; the run does not end fatally.
C3_EveryTrackAttemptedOnce ==
    ffmpeg = "found" =>
        /\ Range(mp3s) = Glob(before)
        /\ Len(mp3s) = Cardinality(Glob(before))
        /\ \A i, j \in 1..Len(mp3s) : i < j => NameLess(mp3s[i], mp3s[j])
        /\ Len(attempts) <= Len(mp3s)
        /\ attempts = SubSeq(mp3s, 1, Len(attempts))
        /\ \A i \in 1..Len(attempts) :
               i < Len(attempts) => outcome[attempts[i]] # "none"
        /\ reported = SelectSeq(attempts, LAMBDA f : outcome[f] = "fail")
        /\ pc = "ffmpeg" => Len(attempts) = idx - 1
        /\ EmbedOver => attempts = mp3s
        /\ exit_code # 1
        /\ pc = "done" => exit_code = 0

\* C3 witness: three tracks, the second failed, the first and third tagged
C3_Witness ==
    /\ pc = "done"
    /\ exit_code = 0
    /\ Len(attempts) = 3
    /\ outcome[attempts[1]] = "ok"
    /\ outcome[attempts[2]] = "fail"
    /\ outcome[attempts[3]] = "ok"
    /\ reported = <<attempts[2]>>

\* what the claim C4 says of track f once the loop is over
TrackSettled(f) ==
    /\ outcome[f] = "fail" =>
           /\ files[f] = before[f]
           /\ files[TmpName(f)].st = "none"
    /\ outcome[f] = "ok" =>
           /\ files[f] = Tagged(before[f])
           /\ files[TmpName(f)].st = "none"

\* C4: after the loop every track whose tagging failed has its content of
\* before the run, every track whose tagging succeeded holds the tagged
\* file, no "_tmp_<name>" file remains; and at no point does a track's path
\* hold partially written output.
C4_TracksIntactOrTagged ==
    /\ \A f \in Range(mp3s) : files[f].st # "partial"
    /\ (ffmpeg = "found" /\ EmbedOver) =>
           \A f \in Range(mp3s) : outcome[f] # "none" /\ TrackSettled(f)

\* no track of the folder bears the temporary name of another one
NoNameClash == \A f \in Glob(before) : TmpName(f) \notin Glob(before)

\* C4 holds of the folders without such a name
C4_HoldsWithoutNameClash == NoNameClash => C4_TracksIntactOrTagged

----------------------------------------------------------------------------
(* Properties of the run *)

\* C5: when the run has ended, none of its temporary files exists.
C5_NoTempFileAtExit ==
    pc = "done" => \A p \in TempPaths : ~exists[p]

\* C6: a run that ends with an exception exits with status 1 and leaves no
\* partially written cover at out_path; out_path is written only after the
\* rasterization succeeded.
C6_FatalLeavesNoPartialCover ==
    /\ (pc = "done" /\ exc # "none") => exit_code = 1
    /\ out_file \in {"partial", "cover"} => svg_result = "ok"
    /\ exit_code = 1 => out_file # "partial"

\* C10: the source art is deleted only once the cover is completely
\* written, the run being past delete_source_art and not fatal, and only
\* when it lies inside base; a fatal run leaves it as it was; the finally
\* clause of main() never removes it.
C10_SourceArtDeletedOnlyAfterCover ==
    /\ (art_init /\ ~exists["art_src"]) =>
           /\ out_file = "cover"
           /\ art_in_base
           /\ pc \in {"zip", "done"}
           /\ exit_code # 1
    /\ exit_code = 1 => exists["art_src"] = art_init
    /\ pc = "embed" => exists["art_src"]

\* C10 witness: the art was 3000x3000 already (the normalizer returned the
\* source path), the run completed, the art was deleted
C10_Witness ==
    /\ pc = "done"
    /\ art_init
    /\ art_norm = "art_src"
    /\ ~exists["art_src"]
    /\ out_file = "cover"

----------------------------------------------------------------------------
(* Properties of wrap_lines and of the layout *)

Last(s) == s[Len(s)]

\* the title's wrap_lines call has returned and had lines to drop
Truncated == tpc # "title" /\ Len(Wrap(text, width)) > max_lines

\* the first max_lines - 1 lines returned are the wrapped ones
HeadKept ==
    /\ Len(title_lines) = max_lines
    /\ \A i \in 1..(max_lines - 1) : title_lines[i] = Wrap(text, width)[i]

\* line l is line w without its trailing "." and " ", then the ellipsis
Ellipsised(l, w) ==
    LET n == Len(l) - 1
    IN /\ Len(l) >= 1
       /\ l[Len(l)] = ELLIPSIS
       /\ n <= Len(w)
       /\ \A i \in 1..n : l[i] = w[i]
       /\ \A i \in (n + 1)..Len(w) : w[i] \in {".", " "}
       /\ n > 0 => l[n] \notin {".", " "}

\* C7 as stated: when wrapping yields more than max_lines lines, wrap_lines
\* returns max_lines lines, the first max_lines - 1 as wrapped, the last
\* ending with the ellipsis.
C7_TruncatedEndsWithEllipsis ==
    Truncated =>
        /\ HeadKept
        /\ Last(title_lines[max_lines]) = ELLIPSIS

\* C7 amended: ... the last line ends with the ellipsis (in place of its
\* trailing "." and " ") when the max_lines-th wrapped line is longer than
\* 3 characters, and is that wrapped line unchanged otherwise.
C7_TruncatedEllipsisWhenLong ==
    Truncated =>
        LET w == Wrap(text, width)[max_lines]
        IN /\ HeadKept
           /\ Len(w) > 3 => Ellipsised(title_lines[max_lines], w)
           /\ Len(w) <= 3 => title_lines[max_lines] = w

\* C7 witness: two lines kept out of more, the first as wrapped, the second
\* longer than 3 characters and ellipsised
C7_Witness ==
    /\ Truncated
    /\ max_lines = 2
    /\ Len(title_lines) = 2
    /\ title_lines[1] = Wrap(text, width)[1]
    /\ Len(Wrap(text, width)[2]) > 3
    /\ Last(title_lines[2]) = ELLIPSIS

\* the lowest baseline of the text block
LowestBaseline(nt, ns) ==
    IF ns > 0
    THEN layout.TEXT_BASE_Y + layout.SUBTITLE_OFFSET_Y
            + layout.SUB_LINE_DY * (ns - 1)
    ELSE layout.TEXT_BASE_Y + layout.TITLE_LINE_DY * (nt - 1)

\* C9: for 1 or 2 title lines and 0 to 2 subtitle lines the text block is
\* inside the canvas: the top of the first title line is >= 0, the lowest
\* baseline <= 3000; and two title lines have a strictly smaller TITLE_SIZE
\* and TEXT_BASE_Y than one.
C9_TextBlockInsideCanvas ==
    (tpc = "done" /\ Len(title_lines) \in {1, 2}
                  /\ Len(subtitle_lines) \in {0, 1, 2}) =>
        /\ layout.TEXT_BASE_Y - layout.TITLE_SIZE >= 0
        /\ LowestBaseline(Len(title_lines), Len(subtitle_lines)) <= CANVAS
        /\ Len(title_lines) = 2 =>
               /\ layout.TITLE_SIZE < TitleSize(1)
               /\ layout.TEXT_BASE_Y < TextBaseY(1)
        /\ Len(title_lines) = 1 =>
               /\ layout.TITLE_SIZE > TitleSize(2)
               /\ layout.TEXT_BASE_Y > TextBaseY(2)

\* C9 witness: the tallest block, two title lines and two subtitle lines
C9_Witness ==
    /\ tpc = "done"
    /\ Len(title_lines) = 2
    /\ Len(subtitle_lines) = 2
    /\ layout.SUBTITLE_OFFSET_Y = 310

====
